---- MODULE Spec2Model ----
(***************************************************************************)
(* Model of prompro, the host-side controller of the Prompro-8 EPROM       *)
(* programmer: main() with its startup handshake, get_prompt()/readch(),   *)
(* the three select_type() overloads and download_file().  The program of  *)
(* src/prompro.cpp, which stops after the handshake, is modelled next to   *)
(* it (OldNext).                                                           *)
(*                                                                         *)
(* Bytes are integers 0..255 and strings are sequences of bytes.  io is    *)
(* the history of the serial line as the program sees it: the bytes it     *)
(* handed to write(2) and the bytes it obtained from read(2), in program   *)
(* order.  What the device does is decided at each poll(2): it has sent a  *)
(* byte in time, or it has not and the poll times out.                     *)
(***************************************************************************)
EXTENDS Integers, Sequences, FiniteSets, TLC

\* ---------------------------------------------------------------- bounds
MaxSegs == 3        \* longest segment list of the configured EPROM type
MaxRx == 4          \* bytes the program receives during one run

\* ------------------------------------------------------- program constants
CR == 13            \* '\r'
CmdS == 83          \* 'S'
Prompt == 42        \* '*'
RTIMEOUT_MS == 2000 \* rtimeout_ms
SELECT_TIMEOUT_MS == 6000
EXIT_OK == 0
EXIT_CONFIG == 1
EXIT_OPEN == 2
EXIT_READ == 3
EXIT_NOT_READY == 4
EXIT_TIMEOUT == 13
SIGABRT_STATUS == 134

\* Device type identifiers ("use" attributes) of the configuration: the
\* empty string (attribute absent), "A" and "B".
PPNames == { <<>>, <<65>>, <<66>> }

\* Bytes the device may send: the prompt, an ordinary byte 'x', and 0xFF.
DeviceBytes == { Prompt, 120, 255 }

\* Names of EPROM types: "T" is the one the configuration defines, "U" is
\* a name given with -e that the configuration does not define.
TypeNames == { "T", "U" }

VARIABLES
    pc,             \* position of the program
    char_is_signed, \* whether plain char is signed in this build
    eproms,         \* the catalog: name -> s_eprom_type
    eprom_type,     \* requested EPROM type name
    eprom,          \* name of the catalog entry in use, "" while null
    download,       \* TRUE iff a download file name was given (-d)
    serial,         \* file descriptor of the serial device, -1 if none
    prompro_type,   \* device type the Prompro-8 was last switched to
    io,             \* history of channel writes and reads
    nrx,            \* number of bytes read from the device
    wfail,          \* TRUE iff some write(2) failed or was short
    gp_arg,         \* get_prompt: the timeout its caller passed
    timeout_ms,     \* get_prompt: timeout used for each readch
    rd_timeout,     \* readch: timeout of the last call made by the current
                    \* get_prompt, 0 before its first call
    rc,             \* readch: rc when the last call ended
    ch,             \* get_prompt: the char variable ch
    gp_caller,      \* get_prompt: "main", "select" or "old_main"
    gp_rx,          \* get_prompt: bytes consumed by the current call
    gp_result,      \* get_prompt: value returned by the last call
    polls,          \* get_prompt: parity of the polls that timed out
    seg,            \* select_type: index of the segment being selected
    sel_caller,     \* select_type(seg): "main" or "download"
    sel_from,       \* Len(io) when the current select_type(seg) began
    calls,          \* completed select_type(seg) calls, oldest first
    it,             \* download_file: loop position in eprom->segs
    dfile,          \* download_file: "none", "open", "closed"
    opens,          \* number of successful open(2) of the serial device
    closes,         \* number of close(2) of the serial device
    exit_code,      \* process exit status, -1 while running
    exit_at         \* which exit was taken, "" while running

vars == << pc, char_is_signed, eproms, eprom_type, eprom, download, serial,
           prompro_type, io, nrx, wfail, gp_arg, timeout_ms, rd_timeout, rc, ch,
           gp_caller, gp_rx, gp_result, polls, seg, sel_caller, sel_from,
           calls, it, dfile,
           opens, closes, exit_code, exit_at >>

\* ---------------------------------------------------------------- helpers

\* All sequences over S of length at most n.
SeqUpTo(S, n) == UNION { [1..k -> S] : k \in 0..n }

\* s_segment values of a type whose segments use the given names in order.
MkSegs(names) == [ i \in 1..Len(names) |->
                     [ ppname |-> names[i], offset |-> 512 * (i - 1) ] ]

\* s_eprom_type
MkEprom(name, names) == [ name |-> name, segsize |-> 512, segs |-> MkSegs(names) ]

\* Conversion of an int to plain char (ch = readch(...)).
ToChar(v) ==
    IF char_is_signed
    THEN IF (v % 256) >= 128 THEN (v % 256) - 256 ELSE v % 256
    ELSE v % 256

WriteEvents(data) == [ i \in 1..Len(data) |-> [ k |-> "w", b |-> data[i], t |-> 0 ] ]
ReadEvent(b, t) == [ k |-> "r", b |-> b, t |-> t ]

\* Bytes handed to write(2) so far, in order.
RECURSIVE Written(_)
Written(log) ==
    IF log = <<>> THEN <<>>
    ELSE IF Head(log).k = "w" THEN <<Head(log).b>> \o Written(Tail(log))
         ELSE Written(Tail(log))

Running == pc \notin { "exit", "abort" }

cfgVars == << char_is_signed, eproms, eprom_type, download >>
chanVars == << io, nrx, wfail >>
gpVars == << gp_arg, timeout_ms, rd_timeout, rc, ch, gp_caller, gp_rx,
            gp_result, polls >>
selVars == << seg, sel_caller, sel_from, calls, prompro_type >>
dlVars == << it, dfile >>
fdVars == << serial, opens, closes >>
exitVars == << exit_code, exit_at >>

\* The segment select_type(seg) is working on.
CurSeg == eproms[eprom].segs[seg]

\* ------------------------------------------------------------------- Init
\* The state when main() is at the position named: the configuration has
\* been loaded into eproms and the command line has been read.
Start(at) ==
    /\ pc = at
    /\ char_is_signed \in BOOLEAN
    /\ \E names \in SeqUpTo(PPNames, MaxSegs) :
           eproms = [ n \in {"T"} |-> MkEprom(n, names) ]
    /\ eprom_type \in TypeNames
    /\ eprom = ""
    /\ download \in BOOLEAN
    /\ serial = -1
    /\ prompro_type = <<>>
    /\ io = <<>>
    /\ nrx = 0
    /\ wfail = FALSE
    /\ gp_arg = 0
    /\ timeout_ms = 0
    /\ rd_timeout = 0
    /\ rc = 0
    /\ ch = 0
    /\ gp_caller = "main"
    /\ gp_rx = <<>>
    /\ gp_result = FALSE
    /\ polls = 0
    /\ seg = 1
    /\ sel_caller = "main"
    /\ sel_from = 0
    /\ calls = <<>>
    /\ it = 1
    /\ dfile = "none"
    /\ opens = 0
    /\ closes = 0
    /\ exit_code = -1
    /\ exit_at = ""

\* The state when main() reaches the EPROM type check.
Init == Start("main_check")

\* exit(code): the process ends with status code; exit() closes the stdio
\* streams that are still open.
Exit(code, at) ==
    /\ pc' = "exit"
    /\ exit_code' = code
    /\ exit_at' = at
    /\ dfile' = IF dfile = "open" THEN "closed" ELSE dfile

\* ------------------------------------------------------------------- main

\* A main without the check that the EPROM type is known.
KnownType_any(name) == TRUE

\* eproms.find(eprom_type) != eproms.end()
KnownType(name) == name \in DOMAIN eproms

\* main: check that the eprom type is known.
MainCheckType ==
    /\ pc = "main_check"
    /\ IF ~KnownType(eprom_type)
       THEN /\ Exit(EXIT_CONFIG, "unknown_type")
            /\ UNCHANGED eprom
       ELSE /\ eprom' = eprom_type
            /\ pc' = "main_open"
            /\ UNCHANGED << exitVars, dfile >>
    /\ UNCHANGED << cfgVars, chanVars, gpVars, selVars, it, fdVars >>

\* open(device), tcgetattr, tcflush, tcsetattr; main goes on at next.
OpenSerial(next) ==
    /\ \E res \in { "ok", "open_failed", "tcgetattr_failed" } :
         CASE res = "open_failed" ->
                /\ Exit(EXIT_OPEN, "open")
                /\ UNCHANGED fdVars
           [] res = "tcgetattr_failed" ->
                /\ serial' = 3
                /\ opens' = opens + 1
                /\ Exit(EXIT_OPEN, "tcgetattr")
                /\ UNCHANGED closes
           [] OTHER ->
                /\ serial' = 3
                /\ opens' = opens + 1
                /\ pc' = next
                /\ UNCHANGED << closes, exitVars, dfile >>
    /\ UNCHANGED << cfgVars, eprom, chanVars, gpVars, selVars, it >>

\* main: open the serial device and set it up.
MainOpen ==
    /\ pc = "main_open"
    /\ OpenSerial("main_handshake")

\* writech(data): one write(2) of the whole string; its result is ignored
\* (assert(rc == rc)), so a failed or short write only sets wfail.
writech(data) ==
    /\ io' = io \o WriteEvents(data)
    /\ \E ok \in BOOLEAN : wfail' = (wfail \/ ~ok)
    /\ UNCHANGED nrx

\* Entry of get_prompt(t): timeout_ms <= 0 selects rtimeout_ms.
EnterGetPrompt(t, caller) ==
    /\ gp_arg' = t
    /\ timeout_ms' = IF t <= 0 THEN RTIMEOUT_MS ELSE t
    /\ gp_caller' = caller
    /\ gp_rx' = <<>>
    /\ polls' = 0
    /\ rd_timeout' = 0
    /\ pc' = IF caller = "old_main" THEN "old_gp_loop" ELSE "gp_loop"
    /\ UNCHANGED << rc, ch, gp_result >>

\* main: writech("\r"); get_prompt()
MainHandshake ==
    /\ pc = "main_handshake"
    /\ writech(<<CR>>)
    /\ EnterGetPrompt(0, "main")
    /\ UNCHANGED << cfgVars, eprom, selVars, dlVars, fdVars, exitVars >>

\* ------------------------------------------------------ readch, get_prompt

\* What one readch(timeout) call can do: poll fails (exit(3)); poll times
\* out (readch returns -1); poll reports input and read yields a byte
\* (readch returns it as 0..255); or poll reports the descriptor ready and
\* read does not return 1 (end of file, hang-up, error), failing the assert.
ReadchOutcomes ==
    { [ how |-> "poll_error", rc |-> -1, val |-> 0 ],
      [ how |-> "read_failed", rc |-> 0, val |-> 0 ],
      [ how |-> "read_failed", rc |-> -1, val |-> 0 ],
      [ how |-> "timeout", rc |-> 0, val |-> -1 ] }
    \cup { [ how |-> "byte", rc |-> 1, val |-> b ] :
               b \in IF nrx < MaxRx THEN DeviceBytes ELSE {} }

\* get_prompt: ch == -1
IsTimeout(c) == c = -1

\* get_prompt: ch != '*' (loop again)
NotPrompt(c) == c # Prompt

\* A get_prompt that polls with rtimeout_ms whatever timeout it was given.
ReadchArg_default(t) == RTIMEOUT_MS

\* get_prompt: the argument of readch(timeout_ms).
ReadchArg(t) == t

\* Return from get_prompt to its caller.
ReturnGetPrompt(result) ==
    /\ gp_result' = result
    /\ pc' = CASE gp_caller = "main" -> "main_hs_ret"
               [] gp_caller = "select" -> "sel_gp_ret"
               [] OTHER -> "old_hs_ret"

\* One iteration of get_prompt's loop: ch = readch(tmo), the test for a
\* timeout and the test for the prompt.
GetPromptLoop(tmo) ==
    /\ \E r \in ReadchOutcomes :
         /\ rd_timeout' = tmo
         /\ rc' = r.rc
         /\ polls' = IF r.how = "timeout" THEN 1 - polls ELSE polls
         /\ CASE r.how = "poll_error" ->
                   /\ Exit(EXIT_READ, "read_error")
                   /\ UNCHANGED << ch, gp_rx, gp_result, chanVars >>
              [] r.how = "read_failed" ->
                   /\ pc' = "abort"
                   /\ exit_code' = SIGABRT_STATUS
                   /\ exit_at' = "assert_readch"
                   /\ UNCHANGED << ch, gp_rx, gp_result, chanVars, dfile >>
              [] OTHER ->
                   /\ ch' = ToChar(r.val)
                   /\ IF r.how = "byte"
                      THEN /\ nrx' = nrx + 1
                           /\ io' = Append(io, ReadEvent(r.val, tmo))
                           /\ gp_rx' = Append(gp_rx, r.val)
                           /\ UNCHANGED wfail
                      ELSE UNCHANGED << gp_rx, chanVars >>
                   /\ IF IsTimeout(ToChar(r.val))
                      THEN ReturnGetPrompt(FALSE)
                      ELSE IF NotPrompt(ToChar(r.val))
                           THEN /\ pc' = pc
                                /\ UNCHANGED gp_result
                           ELSE ReturnGetPrompt(TRUE)
                   /\ UNCHANGED << exitVars, dfile >>
    /\ UNCHANGED << cfgVars, eprom, gp_arg, timeout_ms, gp_caller, selVars, it,
                    fdVars >>

\* get_prompt: do { ch = readch(timeout_ms); ... } while ( ch != '*' )
GetPromptStep ==
    /\ pc = "gp_loop"
    /\ GetPromptLoop(ReadchArg(timeout_ms))

\* A main that goes on to the selection whatever get_prompt returned.
MainAfterHandshake_ignore ==
    /\ pc = "main_hs_ret"
    /\ pc' = "select_default"
    /\ UNCHANGED << cfgVars, eprom, chanVars, gpVars, selVars, dlVars, fdVars,
                    exitVars >>

\* main: if ( !get_prompt() ) { ...; exit(4); }
MainAfterHandshake ==
    /\ pc = "main_hs_ret"
    /\ IF ~gp_result
       THEN Exit(EXIT_NOT_READY, "not_ready")
       ELSE /\ pc' = "select_default"
            /\ UNCHANGED << exitVars, dfile >>
    /\ UNCHANGED << cfgVars, eprom, chanVars, gpVars, selVars, it, fdVars >>

\* ------------------------------------------------------------ select_type

\* A select_type() whose size test is off by one.
NoSegments_offbyone(e) == Len(e.segs) <= 1

\* select_type(): eprom->segs.size() < 1
NoSegments(e) == Len(e.segs) < 1

\* select_type(): reject an EPROM type without segments, else select the
\* device type of its first segment.
SelectDefault ==
    /\ pc = "select_default"
    /\ IF NoSegments(eproms[eprom])
       THEN /\ Exit(EXIT_CONFIG, "no_segments")
            /\ UNCHANGED << seg, sel_caller, sel_from >>
       ELSE /\ seg' = 1
            /\ sel_caller' = "main"
            /\ sel_from' = Len(io)
            /\ pc' = "select_seg"
            /\ UNCHANGED << exitVars, dfile >>
    /\ UNCHANGED << cfgVars, eprom, chanVars, gpVars, calls, prompro_type,
                    it, fdVars >>

\* A select_type(seg) that never takes the "continuing to use" branch.
NeedSelect_always(current, ppname) == TRUE

\* select_type(seg): prompro_type != seg.ppname
NeedSelect(current, ppname) == current # ppname

\* Return from select_type(seg) to its caller: main goes on to anykey(),
\* download_file to the next segment.  The call is entered in calls with
\* the part of io it produced (events from+1..to) and prompro_type as the
\* call leaves it.
ReturnSelect(type_after) ==
    /\ calls' = Append(calls, [ id |-> CurSeg.ppname, from |-> sel_from,
                                to |-> Len(io), after |-> type_after ])
    /\ IF sel_caller = "main"
       THEN /\ pc' = "main_anykey"
            /\ UNCHANGED it
       ELSE /\ pc' = "dl_loop"
            /\ it' = it + 1

\* A select_type(seg) that records the new type before it has sent the
\* command.
SelectSeg_eager ==
    /\ pc = "select_seg"
    /\ IF NeedSelect(prompro_type, CurSeg.ppname)
       THEN /\ prompro_type' = CurSeg.ppname
            /\ pc' = "sel_write_S"
            /\ UNCHANGED << calls, it >>
       ELSE /\ ReturnSelect(prompro_type)
            /\ UNCHANGED prompro_type
    /\ UNCHANGED << cfgVars, eprom, chanVars, gpVars, seg, sel_caller, sel_from,
                    dfile, fdVars, exitVars >>

\* select_type(seg): the comparison with prompro_type; the else branch
\* returns at once.
SelectSeg ==
    /\ pc = "select_seg"
    /\ IF NeedSelect(prompro_type, CurSeg.ppname)
       THEN /\ pc' = "sel_write_S"
            /\ UNCHANGED << calls, it >>
       ELSE ReturnSelect(prompro_type)
    /\ UNCHANGED << cfgVars, eprom, chanVars, gpVars, seg, sel_caller, sel_from,
                    prompro_type, dfile, fdVars, exitVars >>

\* select_type(type): writech("S")
SelectWriteS ==
    /\ pc = "sel_write_S"
    /\ writech(<<CmdS>>)
    /\ pc' = "sel_write_type"
    /\ UNCHANGED << cfgVars, eprom, gpVars, selVars, dlVars, fdVars, exitVars >>

\* select_type(type): writech(type)
SelectWriteType ==
    /\ pc = "sel_write_type"
    /\ writech(CurSeg.ppname)
    /\ pc' = "sel_write_cr"
    /\ UNCHANGED << cfgVars, eprom, gpVars, selVars, dlVars, fdVars, exitVars >>

\* A select_type(type) that waits for the prompt with the default timeout.
SelectWriteCR_default ==
    /\ pc = "sel_write_cr"
    /\ writech(<<CR>>)
    /\ EnterGetPrompt(0, "select")
    /\ UNCHANGED << cfgVars, eprom, selVars, dlVars, fdVars, exitVars >>

\* select_type(type): writecr(); get_prompt(6000)
SelectWriteCR ==
    /\ pc = "sel_write_cr"
    /\ writech(<<CR>>)
    /\ EnterGetPrompt(SELECT_TIMEOUT_MS, "select")
    /\ UNCHANGED << cfgVars, eprom, selVars, dlVars, fdVars, exitVars >>

\* A select_type(seg) that never records the type it selected.
SelectedType_keep(current, ppname) == current

\* A select_type(seg) that records only the first type it selected.
SelectedType_first(current, ppname) == IF current = <<>> THEN ppname ELSE current

\* The value select_type(seg) stores in prompro_type after the command.
SelectedType(current, ppname) == ppname

\* A select_type(type) that sends the command again after a timeout.
SelectAfterPrompt_retry ==
    /\ pc = "sel_gp_ret"
    /\ IF ~gp_result
       THEN /\ pc' = "sel_write_S"
            /\ UNCHANGED << prompro_type, calls, it, exitVars, dfile >>
       ELSE /\ prompro_type' = SelectedType(prompro_type, CurSeg.ppname)
            /\ ReturnSelect(SelectedType(prompro_type, CurSeg.ppname))
            /\ UNCHANGED << exitVars, dfile >>
    /\ UNCHANGED << cfgVars, eprom, chanVars, gpVars, seg, sel_caller, sel_from,
                    fdVars >>

\* A timeout() that ends the run with the status of the failed handshake.
SelectAfterPrompt_notready ==
    /\ pc = "sel_gp_ret"
    /\ IF ~gp_result
       THEN /\ Exit(EXIT_NOT_READY, "select_timeout")
            /\ UNCHANGED << prompro_type, calls, it >>
       ELSE /\ prompro_type' = SelectedType(prompro_type, CurSeg.ppname)
            /\ ReturnSelect(SelectedType(prompro_type, CurSeg.ppname))
            /\ UNCHANGED << exitVars, dfile >>
    /\ UNCHANGED << cfgVars, eprom, chanVars, gpVars, seg, sel_caller, sel_from,
                    fdVars >>

\* select_type(type): if ( !get_prompt(6000) ) timeout(...), which is
\* exit(13); then, back in select_type(seg), prompro_type = seg.ppname.
SelectAfterPrompt ==
    /\ pc = "sel_gp_ret"
    /\ IF ~gp_result
       THEN /\ Exit(EXIT_TIMEOUT, "select_timeout")
            /\ UNCHANGED << prompro_type, calls, it >>
       ELSE /\ prompro_type' = SelectedType(prompro_type, CurSeg.ppname)
            /\ ReturnSelect(SelectedType(prompro_type, CurSeg.ppname))
            /\ UNCHANGED << exitVars, dfile >>
    /\ UNCHANGED << cfgVars, eprom, chanVars, gpVars, seg, sel_caller, sel_from,
                    fdVars >>

\* ---------------------------------------------------------- main, download

\* main: anykey(); if ( download != "" ) download_file(...)
MainAnykey ==
    /\ pc = "main_anykey"
    /\ pc' = IF download THEN "dl_open" ELSE "main_close"
    /\ UNCHANGED << cfgVars, eprom, chanVars, gpVars, selVars, dlVars, fdVars,
                    exitVars >>

\* download_file: fopen(path,"w"), exit(2) when it fails.
DownloadOpen ==
    /\ pc = "dl_open"
    /\ \E ok \in BOOLEAN :
         IF ok
         THEN /\ dfile' = "open"
              /\ it' = 1
              /\ pc' = "dl_loop"
              /\ UNCHANGED exitVars
         ELSE /\ Exit(EXIT_OPEN, "fopen")
              /\ UNCHANGED it
    /\ UNCHANGED << cfgVars, eprom, chanVars, gpVars, selVars, fdVars >>

\* download_file: the loop over eprom->segs, then fclose(dfile).
DownloadLoop ==
    /\ pc = "dl_loop"
    /\ IF it <= Len(eproms[eprom].segs)
       THEN /\ seg' = it
            /\ sel_caller' = "download"
            /\ sel_from' = Len(io)
            /\ pc' = "select_seg"
            /\ UNCHANGED dfile
       ELSE /\ dfile' = "closed"
            /\ pc' = "main_close"
            /\ UNCHANGED << seg, sel_caller, sel_from >>
    /\ UNCHANGED << cfgVars, eprom, chanVars, gpVars, calls, prompro_type, it,
                    fdVars, exitVars >>

\* A main that returns without close(serial).
MainClose_noclose ==
    /\ pc = "main_close"
    /\ Exit(EXIT_OK, "return")
    /\ UNCHANGED << fdVars, cfgVars, eprom, chanVars, gpVars, selVars, it >>

\* main: close(serial); return 0
MainClose ==
    /\ pc = "main_close"
    /\ serial' = -1
    /\ closes' = closes + 1
    /\ Exit(EXIT_OK, "return")
    /\ UNCHANGED << opens, cfgVars, eprom, chanVars, gpVars, selVars, it >>

Next ==
    \/ MainCheckType
    \/ MainOpen
    \/ MainHandshake
    \/ GetPromptStep
    \/ MainAfterHandshake
    \/ SelectDefault
    \/ SelectSeg
    \/ SelectWriteS
    \/ SelectWriteType
    \/ SelectWriteCR
    \/ SelectAfterPrompt
    \/ MainAnykey
    \/ DownloadOpen
    \/ DownloadLoop
    \/ MainClose

Spec == Init /\ [][Next]_vars

\* The program is a running process: whenever it can take a step it takes
\* one.
FairSpec == Spec /\ WF_vars(Next)

\* ------------------------------------------------- src/prompro.cpp
\* The program of src/prompro.cpp: it opens the device, performs the
\* handshake and closes the device; it has no EPROM type check, no
\* selection and no download.

\* The state when main() of src/prompro.cpp reaches open().
OldInit == Start("old_open") /\ ~download

\* main: open the serial device and set it up.
OldMainOpen ==
    /\ pc = "old_open"
    /\ OpenSerial("old_handshake")

\* main: writech("\r"); get_prompt()
OldMainHandshake ==
    /\ pc = "old_handshake"
    /\ writech(<<CR>>)
    /\ EnterGetPrompt(0, "old_main")
    /\ UNCHANGED << cfgVars, eprom, selVars, dlVars, fdVars, exitVars >>

\* get_prompt: the argument of readch(rtimeout_ms).
OldReadchArg(t) == RTIMEOUT_MS

\* get_prompt: do { ch = readch(rtimeout_ms); ... } while ( ch != '*' )
OldGetPromptStep ==
    /\ pc = "old_gp_loop"
    /\ GetPromptLoop(OldReadchArg(timeout_ms))

\* main: if ( !get_prompt() ) { ...; exit(4); } puts("Ready.")
OldMainAfterHandshake ==
    /\ pc = "old_hs_ret"
    /\ IF ~gp_result
       THEN Exit(EXIT_NOT_READY, "not_ready")
       ELSE /\ pc' = "old_close"
            /\ UNCHANGED << exitVars, dfile >>
    /\ UNCHANGED << cfgVars, eprom, chanVars, gpVars, selVars, it, fdVars >>

\* main: close(serial); return 0
OldMainClose ==
    /\ pc = "old_close"
    /\ serial' = -1
    /\ closes' = closes + 1
    /\ Exit(EXIT_OK, "return")
    /\ UNCHANGED << opens, cfgVars, eprom, chanVars, gpVars, selVars, it >>

OldNext ==
    \/ OldMainOpen
    \/ OldMainHandshake
    \/ OldGetPromptStep
    \/ OldMainAfterHandshake
    \/ OldMainClose

\* Either program.
AnyInit == Init \/ OldInit

AnyNext == Next \/ OldNext

AnySpec == AnyInit /\ [][AnyNext]_vars

\* ------------------------------------------------------------ observations

\* The select command for device type x as it appears on the line.
Cmd(x) == <<CmdS>> \o x \o <<CR>>

\* The events of io numbered from+1..to.
Slice(from, to) == SubSeq(io, from + 1, to)

\* A completed select_type(seg) call that sent a command: its last channel
\* event is the read of the prompt.
Confirmed(c) == c.to > c.from /\ io[c.to].k = "r" /\ io[c.to].b = Prompt

\* log ends with the complete select command for x followed by one or more
\* reads, the last of which obtained the prompt.
ConfirmedSelect(log, x) ==
    \E m \in 1..Len(log) :
        /\ Len(log) - m >= Len(Cmd(x))
        /\ \A j \in (Len(log) - m + 1)..Len(log) : log[j].k = "r"
        /\ log[Len(log)].b = Prompt
        /\ SubSeq(log, Len(log) - m - Len(Cmd(x)) + 1, Len(log) - m)
             = WriteEvents(Cmd(x))

\* The lines of w that are complete (ended by CR), without their CR; cur is
\* the line being collected.
RECURSIVE Lines(_, _)
Lines(w, cur) ==
    IF w = <<>> THEN <<>>
    ELSE IF Head(w) = CR THEN <<cur>> \o Lines(Tail(w), <<>>)
         ELSE Lines(Tail(w), Append(cur, Head(w)))

\* The device types named by the select commands among the given lines.
RECURSIVE SelectIdsOf(_)
SelectIdsOf(lines) ==
    IF lines = <<>> THEN <<>>
    ELSE IF Head(lines) # <<>> /\ Head(Head(lines)) = CmdS
         THEN <<Tail(Head(lines))>> \o SelectIdsOf(Tail(lines))
         ELSE SelectIdsOf(Tail(lines))

\* The device types of the select commands written so far, in order.
SelectIds == SelectIdsOf(Lines(Written(io), <<>>))

\* q with every maximal run of equal consecutive elements reduced to one.
RECURSIVE Dedup(_)
Dedup(q) ==
    IF Len(q) <= 1 THEN q
    ELSE IF q[1] = q[2] THEN Dedup(Tail(q))
         ELSE <<q[1]>> \o Dedup(Tail(q))

\* The segments of the requested EPROM type (when it is configured).
Segs == eproms[eprom_type].segs

\* The device types of the segments, in segment order.
SegNames == [ i \in 1..Len(Segs) |-> Segs[i].ppname ]

\* get_prompt has just returned to its caller.
AtGetPromptReturn == pc \in { "main_hs_ret", "sel_gp_ret" }

\* ------------------------------------------------------------------ claims

\* C1. Idempotent selection: when select_type(seg) is called twice in a
\* row for the same device type x and the first call sent the command and
\* was confirmed by a prompt, the first call wrote the select command for x
\* exactly once, and the second call wrote nothing, read nothing and left
\* prompro_type equal to x.
C1_IdempotentSelect ==
    \A i \in 2..Len(calls) :
        LET a == calls[i - 1]
            b == calls[i]
        IN  (a.id = b.id /\ Confirmed(a)) =>
                /\ Written(Slice(a.from, a.to)) = Cmd(a.id)
                /\ b.from = a.to
                /\ b.to = b.from
                /\ b.after = b.id

C1_Witness ==
    \E i \in 2..Len(calls) :
        /\ calls[i - 1].id = calls[i].id
        /\ Confirmed(calls[i - 1])
        /\ calls[i].to = calls[i].from

\* C2. Re-selection on change: for distinct device types a and b, when a
\* has been selected and confirmed by a prompt (by calls[j], possibly
\* followed by repeated calls for a), and select(b) and then select(a)
\* follow, the channel carries the three select commands a, b, a in that
\* order: the earlier selection of a is not remembered across b.
C2_Reselect ==
    \A i \in 3..Len(calls) : \A j \in 1..(i - 2) :
        LET b == calls[i - 1]
            c == calls[i]
        IN  ( /\ Confirmed(calls[j])
              /\ \A m \in j..(i - 2) : calls[m].id = c.id
              /\ b.id # c.id ) =>
                /\ Confirmed(b)
                /\ Confirmed(c)
                /\ Written(Slice(calls[j].from, c.to))
                     = Cmd(c.id) \o Cmd(b.id) \o Cmd(c.id)

C2_Witness ==
    \E i \in 3..Len(calls) : \E j \in 1..(i - 2) :
        /\ Confirmed(calls[j])
        /\ \A m \in j..(i - 2) : calls[m].id = calls[i].id
        /\ calls[i - 1].id # calls[i].id
        /\ Written(Slice(calls[j].from, calls[i].to))
             = Cmd(calls[i].id) \o Cmd(calls[i - 1].id) \o Cmd(calls[i].id)

\* C3. prompro_type is given a new value x only by a step taken in a state
\* whose channel history ends with the complete select command for x
\* followed by reads the last of which obtained '*'; and when get_prompt
\* returns false to select_type, the next step is exit(13) and leaves
\* prompro_type as it was.
C3_SetAfterConfirm ==
    [][ /\ (prompro_type' # prompro_type) => ConfirmedSelect(io, prompro_type')
        /\ (pc = "sel_gp_ret" /\ ~gp_result) =>
              /\ prompro_type' = prompro_type
              /\ pc' = "exit"
              /\ exit_code' = EXIT_TIMEOUT ]_vars

C3_Witness ==
    /\ prompro_type # <<>>
    /\ pc \in { "main_anykey", "dl_loop" }
    /\ ConfirmedSelect(io, prompro_type)

\* C4 (as claimed). Segment ordering: a run that downloads and reaches its
\* end has written one select command per maximal run of consecutive
\* segments sharing a device type, in segment order (for the segments A, A,
\* B: two commands, A then B).  The commands are counted over the whole
\* run, the initial select_type() included, which is the reading most
\* favourable to the claim.
C4_SelectPerRun ==
    (pc = "exit" /\ exit_at = "return" /\ download) =>
        SelectIds = Dedup(SegNames)

\* C5 (as claimed). Prompt detection: get_prompt returns true exactly when
\* it has consumed the bytes up to and including the first '*', and it
\* returns false only when the channel had nothing more to deliver, that
\* is when its last poll timed out: it never gives up on a byte that was
\* delivered.
C5_PromptDetection ==
    AtGetPromptReturn =>
        IF gp_result
        THEN /\ gp_rx # <<>>
             /\ gp_rx[Len(gp_rx)] = Prompt
             /\ \A j \in 1..(Len(gp_rx) - 1) : gp_rx[j] # Prompt
        ELSE rc = 0

\* C6 (as claimed). Timeout behaviour: every call of get_prompt comes to an
\* end; a channel that delivers finitely many bytes and then stays silent
\* cannot keep the program in get_prompt's loop for ever.
C6_GetPromptReturns == (pc = "gp_loop") ~> (pc # "gp_loop")

\* C7 (as claimed). Empty-segment rejection: the exit for an EPROM type
\* without segments is taken before the serial device has been opened and
\* before any byte has been written or read.
C7_RejectBeforeIO ==
    (exit_at = "no_segments") => (io = <<>> /\ opens = 0 /\ nrx = 0)

\* C7 (amended). The exit for an EPROM type without segments is taken with
\* status 1 after the device has been opened and the handshake has been
\* answered by a prompt, and before any byte of a select command: the bare
\* carriage return of the handshake is the only byte such a run ever
\* writes, it never selects a type and never reaches its normal end.
C7_RejectBeforeSelect ==
    /\ (exit_at = "no_segments") =>
          /\ Len(Segs) = 0
          /\ exit_code = EXIT_CONFIG
          /\ opens = 1
          /\ Written(io) = <<CR>>
          /\ io[Len(io)].k = "r" /\ io[Len(io)].b = Prompt
          /\ calls = <<>>
    /\ (eprom_type \in DOMAIN eproms /\ Len(Segs) = 0) =>
          /\ Written(io) \in { <<>>, <<CR>> }
          /\ prompro_type = <<>>
          /\ exit_at # "return"

C7_Witness == exit_at = "no_segments" /\ Written(io) = <<CR>>

\* C8. Unknown type rejection: when the requested EPROM type is not in the
\* catalog the run ends at once with the configuration error (status 1);
\* the serial device is never opened, no byte is written and none is read.
C8_UnknownType ==
    (eprom_type \notin DOMAIN eproms) =>
        /\ pc \in { "main_check", "exit" }
        /\ (pc = "exit") => (exit_code = EXIT_CONFIG /\ exit_at = "unknown_type")
        /\ serial = -1 /\ opens = 0
        /\ io = <<>> /\ nrx = 0

C8_Witness == pc = "exit" /\ exit_at = "unknown_type" /\ io = <<>>

\* The channel history begins with the handshake: the bare carriage return,
\* then reads made with the default timeout, the n-th event being the read
\* of the prompt.
HandshakeDoneBy(n) ==
    /\ n >= 2 /\ n <= Len(io)
    /\ io[1] = WriteEvents(<<CR>>)[1]
    /\ \A j \in 2..n : io[j].k = "r" /\ io[j].t = RTIMEOUT_MS
    /\ io[n].b = Prompt

\* C9. Startup handshake ordering: the first byte written is the bare
\* carriage return, and every later write is preceded by a read of '*'
\* made, like all reads before it, with the default timeout; when the
\* handshake's get_prompt returns false the run ends at the next step with
\* the "not ready" status 4, which is not the selection-timeout status,
\* and such a run has written nothing but the carriage return.
C9_HandshakeFirst ==
    /\ [] ( /\ (io # <<>>) => (io[1] = WriteEvents(<<CR>>)[1])
            /\ \A j \in 2..Len(io) :
                  (io[j].k = "w") => \E n \in 2..(j - 1) : HandshakeDoneBy(n)
            /\ (exit_at = "not_ready") =>
                  /\ exit_code = EXIT_NOT_READY
                  /\ exit_code # EXIT_TIMEOUT
                  /\ Written(io) = <<CR>>
            /\ (exit_at = "select_timeout") => (exit_code # EXIT_NOT_READY) )
    /\ [][ (pc = "main_hs_ret" /\ ~gp_result) =>
              (pc' = "exit" /\ exit_at' = "not_ready") ]_vars

C9_Witness ==
    /\ Len(Written(io)) > 1
    /\ \E n \in 2..Len(io) : HandshakeDoneBy(n)

\* C10 (as claimed). Once the serial device has been opened, every ended
\* run has closed it exactly once.
C10_ClosedOnEveryExit ==
    (~Running /\ opens > 0) => (closes = 1)

\* C10 (amended). The serial device is opened at most once and closed by
\* the program at most once: exactly once on the normal end of the run
\* (close(serial) before return 0), and not at all on the error exits,
\* which leave through exit() or abort() with the descriptor still open.
C10_ClosedOnNormalExit ==
    /\ opens <= 1
    /\ closes <= opens
    /\ (closes = 1) <=> (exit_at = "return")
    /\ (serial = -1) <=> (opens = 0 \/ closes = 1)

C10_Witness ==
    /\ exit_at = "select_timeout"
    /\ opens = 1 /\ closes = 0 /\ serial # -1

\* C11. Once download_file has opened the destination file, the file is
\* closed on every path on which the run ends: after the loop over the
\* segments, or when a selection times out or the channel cannot be read
\* while a segment is being selected.  No ended run has the file open.
C11_FileClosedOnEveryEnd == (~Running /\ dfile # "none") => dfile = "closed"

\* C12. A channel write failure is fatal: once a write(2) of the handshake
\* or of a select command has failed or was short, the run has ended with
\* an error status; it is not waiting for a prompt, not continuing the
\* selection and not storing prompro_type.
C12_WriteFailureFatal == wfail => (pc = "exit" /\ exit_code # EXIT_OK)

\* The fatal condition an exit belongs to: the serial device cannot be
\* opened or queried, the channel cannot be read, the device is not ready,
\* a selection timed out, the EPROM type is unknown or has no segments.
FatalCondition(at) ==
    CASE at \in { "open", "tcgetattr" } -> "open_error"
      [] at = "read_error" -> "read_error"
      [] at = "not_ready" -> "not_ready"
      [] at = "select_timeout" -> "select_timeout"
      [] at \in { "unknown_type", "no_segments" } -> "config_error"
      [] OTHER -> "none"

\* The exit status of each of the five fatal conditions.
FatalStatus ==
    [ open_error |-> EXIT_OPEN, read_error |-> EXIT_READ,
      not_ready |-> EXIT_NOT_READY, select_timeout |-> EXIT_TIMEOUT,
      config_error |-> EXIT_CONFIG ]

\* C13. The five fatal conditions (serial device cannot be opened, channel
\* read error, device not ready, selection timeout, unknown or
\* misconfigured EPROM type) end the run with pairwise distinct exit
\* statuses: every exit taken for one of them carries the status of its
\* condition, and no two conditions have the same status.
C13_DistinctExitCodes ==
    /\ (pc = "exit" /\ FatalCondition(exit_at) # "none")
          => exit_code = FatalStatus[FatalCondition(exit_at)]
    /\ \A a, b \in DOMAIN FatalStatus : a # b => FatalStatus[a] # FatalStatus[b]

\* A selection has timed out and the run has ended with the status of the
\* selection timeout.
C13_Witness ==
    pc = "exit" /\ exit_at = "select_timeout" /\ exit_code = EXIT_TIMEOUT

\* C14. get_prompt discards every received byte that is not '*', whatever
\* its value in 0..255: when the last readch of a get_prompt call delivered
\* a byte other than '*', get_prompt is still in its loop and reads again.
\* It does not return (false) because of the value of a byte.
C14_DiscardsEveryByte ==
    (rc = 1 /\ gp_rx # <<>> /\ gp_rx[Len(gp_rx)] # Prompt) => pc = "gp_loop"

\* log is the complete select command for x followed only by reads made
\* with the selection timeout.
FramedSelect(log, x) ==
    /\ Len(log) >= Len(Cmd(x))
    /\ SubSeq(log, 1, Len(Cmd(x))) = WriteEvents(Cmd(x))
    /\ \A j \in (Len(Cmd(x)) + 1)..Len(log) :
          log[j].k = "r" /\ log[j].t = SELECT_TIMEOUT_MS

\* C15. A select_type(seg) that is not short-circuited writes exactly 'S',
\* the bytes of the device type and a carriage return, in that order and
\* with nothing in between, and reads only after the carriage return; its
\* wait for the prompt uses 6000 ms, which is not the default 2000 ms.
\* Stated for the call in progress at each of its positions and for every
\* completed call that produced channel events.
C15_SelectFraming ==
    /\ SELECT_TIMEOUT_MS # RTIMEOUT_MS
    /\ pc = "sel_write_S" => Slice(sel_from, Len(io)) = <<>>
    /\ pc = "sel_write_type" => Slice(sel_from, Len(io)) = WriteEvents(<<CmdS>>)
    /\ pc = "sel_write_cr" =>
          Slice(sel_from, Len(io)) = WriteEvents(<<CmdS>> \o CurSeg.ppname)
    /\ (pc \in { "gp_loop", "sel_gp_ret" } /\ gp_caller = "select") =>
          /\ timeout_ms = SELECT_TIMEOUT_MS
          /\ FramedSelect(Slice(sel_from, Len(io)), CurSeg.ppname)
    /\ \A i \in 1..Len(calls) :
          calls[i].to > calls[i].from =>
              FramedSelect(Slice(calls[i].from, calls[i].to), calls[i].id)

\* A completed select_type(seg) for a named device type that read and
\* discarded a byte before it read the prompt.
C15_Witness ==
    \E i \in 1..Len(calls) :
        /\ calls[i].id # <<>>
        /\ calls[i].to - calls[i].from >= Len(Cmd(calls[i].id)) + 2
        /\ io[calls[i].to].b = Prompt

\* The timeout get_prompt(t) is asked to use: t, or rtimeout_ms when
\* t <= 0.
Requested(t) == IF t > 0 THEN t ELSE RTIMEOUT_MS

\* A get_prompt call is in its loop or has just returned.
InGetPrompt ==
    pc \in { "gp_loop", "main_hs_ret", "sel_gp_ret", "old_gp_loop", "old_hs_ret" }

\* C16. Every readch made by get_prompt(t) is given the full timeout asked
\* for, t when t > 0 and rtimeout_ms when t <= 0, however many bytes the
\* call has already discarded: the last readch of the call and every read
\* that delivered a byte to it used that timeout, and no other value.
C16_FullTimeout ==
    InGetPrompt =>
        /\ rd_timeout \in { 0, Requested(gp_arg) }
        /\ pc \notin { "gp_loop", "old_gp_loop" } => rd_timeout = Requested(gp_arg)
        /\ \A j \in (Len(io) - Len(gp_rx) + 1)..Len(io) :
              io[j].k = "r" /\ io[j].t = Requested(gp_arg)

\* get_prompt(6000) has discarded two bytes and is about to read again.
C16_Witness ==
    /\ pc = "gp_loop"
    /\ gp_arg = SELECT_TIMEOUT_MS
    /\ Len(gp_rx) >= 2
    /\ rd_timeout = SELECT_TIMEOUT_MS

\* a is an initial part of b.
IsPrefix(a, b) == Len(a) <= Len(b) /\ a = SubSeq(b, 1, Len(a))

\* C17. Every core error is terminal and nothing is retried.  When
\* get_prompt has returned false (handshake timeout, selection timeout) the
\* next step ends the run without channel I/O; the step that ends a run
\* (these exits and the channel read error inside readch) reads and writes
\* nothing, and an ended run has no further channel events.  Within one
\* select_type(seg) call the bytes written never go beyond one select
\* command: they are an initial part of 'S', the type, carriage return.
C17_TerminalNoRetry ==
    /\ []( (pc \in { "sel_write_S", "sel_write_type", "sel_write_cr" }
              \/ gp_caller = "select")
            => IsPrefix(Written(Slice(sel_from, Len(io))), Cmd(CurSeg.ppname)) )
    /\ [][ /\ (AtGetPromptReturn /\ ~gp_result) => (pc' = "exit" /\ io' = io)
           /\ pc' \in { "exit", "abort" } => io' = io
           /\ ~Running => io' = io ]_vars

\* A selection of a named device type has timed out after its command was
\* written once, and the run has ended.
C17_Witness ==
    /\ pc = "exit"
    /\ exit_at = "select_timeout"
    /\ CurSeg.ppname # <<>>
    /\ Written(Slice(sel_from, Len(io))) = Cmd(CurSeg.ppname)

\* C18. For every EPROM type with at least one segment, a select_type()
\* that has returned has written the select command for the device type of
\* the first segment and has read the prompt for it, whatever that type is,
\* the empty string included: the initial prompro_type matches no segment.
C18_DefaultSelectSends ==
    calls # <<>> =>
        /\ calls[1].id = Segs[1].ppname
        /\ Confirmed(calls[1])
        /\ Written(Slice(calls[1].from, calls[1].to)) = Cmd(calls[1].id)

\* A select_type(seg) call has begun to send its command and has not
\* returned: it is writing, waiting for the prompt, or the run ended inside
\* it (selection timeout, channel read error while it waited).
SelectInProgress ==
    \/ pc \in { "sel_write_S", "sel_write_type", "sel_write_cr", "sel_gp_ret" }
    \/ pc = "gp_loop" /\ gp_caller = "select"
    \/ exit_at = "select_timeout"
    \/ exit_at \in { "read_error", "assert_readch" } /\ gp_caller = "select"

\* The device type of the last select command written, <<>> when none was.
LastSelectId ==
    IF SelectIds = <<>> THEN <<>> ELSE SelectIds[Len(SelectIds)]

\* C19. Whenever no select_type(seg) call is in progress, prompro_type is
\* the device type of the most recent select command written to the
\* channel, and the empty string when none was written; and prompro_type
\* is changed by no step other than the end of a select_type(seg) call
\* that wrote the command for the new value and read the prompt.
C19_TypeTracksLastCommand ==
    /\ [](~SelectInProgress => prompro_type = LastSelectId)
    /\ [][ prompro_type' # prompro_type =>
             /\ pc = "sel_gp_ret" /\ gp_result
             /\ Written(Slice(sel_from, Len(io))) = Cmd(prompro_type') ]_vars

\* The download has selected a second device type and the run has ended
\* normally: two commands were written and prompro_type is the later one.
C19_Witness ==
    /\ pc = "exit" /\ exit_at = "return"
    /\ Len(SelectIds) = 2
    /\ SelectIds[1] # SelectIds[2]
    /\ prompro_type = SelectIds[2]

\* C20. The assertion of readch that read(2) returned exactly one byte
\* holds in every reachable state: no run ends by the failure of that
\* assertion, and a run whose channel read failed has left through the
\* I/O error exit, exit(3).
C20_ReadAssertHolds ==
    /\ pc # "abort"
    /\ (~Running /\ rc # 1 /\ exit_at \in { "read_error", "assert_readch" })
          => exit_code = EXIT_READ

====
